---- MODULE Spec2Model ----
(***************************************************************************)
(* Nexus-Watch risk engine (src/risk_engine.py) and its caller             *)
(* (src/app.py).  The graph store is the input: a labelled multigraph whose *)
(* relationships are the ones the master Cypher query matches.  The engine *)
(* never writes it.  get_risk_dashboard_data is modelled step by step      *)
(* (open session, run query, iterate records, build the DataFrame), the    *)
(* query by the Cypher semantics of each of its clauses.                   *)
(***************************************************************************)
EXTENDS Integers, Sequences, FiniteSets, TLC

(* ------------------------------------------------------------------ *)
(* Bounds of the model                                                 *)
(* ------------------------------------------------------------------ *)
\* largest number of relationships in a graph
MaxEdges == 3
\* largest number of parallel relationships of one type between two nodes
MaxMult == 2
\* largest number of rows of a price history
MaxHist == 3

(* ------------------------------------------------------------------ *)
(* Node labels of the graph (the labels the query names)               *)
(* ------------------------------------------------------------------ *)
Company == {"X", "Y"}
NewsEvent == {"n1", "n2"}
Person == {"p1", "p2"}
Supplier == {"s1"}
GovernmentAgency == {"g1", "g2"}
Sector == {"coal", "mining"}
RiskDisclosure == {"physical"}
\* r.value of a SUPPLIES_TO relationship: each threshold, and one above it
ContractValues == {10000000, 50000000, 50000001}

(* A relationship is <<type, start node, end node, value>>; value is 0 for
   the types that carry none. *)
HasRiskEventEdges == {"HAS_RISK_EVENT"} \X Company \X NewsEvent \X {0}
DirectorOfEdges == {"DIRECTOR_OF"} \X Person \X Company \X {0}
IsAlsoEdges == {"IS_ALSO"} \X Company \X Supplier \X {0}
SuppliesToEdges == {"SUPPLIES_TO"} \X Supplier \X GovernmentAgency \X ContractValues
ExposedToEdges == {"EXPOSED_TO_SECTOR"} \X Company \X Sector \X {0}
AcknowledgesEdges == {"ACKNOWLEDGES_RISK"} \X Company \X RiskDisclosure \X {0}

AllEdges ==
  HasRiskEventEdges \cup DirectorOfEdges \cup IsAlsoEdges \cup SuppliesToEdges
    \cup ExposedToEdges \cup AcknowledgesEdges

EmptyGraph == [e \in AllEdges |-> 0]

\* the graphs with at most n relationships, each relationship at most MaxMult times
RECURSIVE GraphsUpTo(_)
GraphsUpTo(n) ==
  IF n = 0 THEN {EmptyGraph}
  ELSE LET S == GraphsUpTo(n - 1)
       IN  S \cup {[g EXCEPT ![e] = @ + 1] : <<g, e>> \in {x \in S \X AllEdges : x[1][x[2]] < MaxMult}}

Graphs == GraphsUpTo(MaxEdges)

RECURSIVE SumFn(_, _)
SumFn(f, S) ==
  IF S = {} THEN 0
  ELSE LET x == CHOOSE y \in S : TRUE IN f[x] + SumFn(f, S \ {x})

(* ------------------------------------------------------------------ *)
(* Program constants                                                   *)
(* ------------------------------------------------------------------ *)
DirectWeight == 10
ContagionWeight == 5
HighValue == 50000000
MediumValue == 10000000
SingleHighScore == 15
MultiHighScore == 5
SingleMediumScore == 8
MinHist == 2
ConfirmedPct == -2

VARIABLES
  graph,     \* the graph store: relationship -> number of parallel copies
  pc,        \* where get_risk_dashboard_data is: "idle", "session", "result"
  cursor,    \* records of the running query not yet iterated
  data,      \* the list comprehension's records so far
  fault,     \* what the driver raised in the last call that ended, "none" if nothing
  ret,       \* what the last call gave its caller
  hist,      \* closes of the price history of the last check_market_volatility
  fetch_ok,  \* FALSE when the fetch or the column access of that call raised
  label      \* what that call returned

vars == <<graph, pc, cursor, data, fault, ret, hist, fetch_ok, label>>

(* ------------------------------------------------------------------ *)
(* The master query, clause by clause                                  *)
(* ------------------------------------------------------------------ *)

\* OPTIONAL MATCH (c)-[:HAS_RISK_EVENT]->(n:NewsEvent): one row per
\* relationship; count(n) counts the rows whose n is not null
count_n(c) ==
  SumFn([n \in NewsEvent |-> graph[<<"HAS_RISK_EVENT", c, n, 0>>]], NewsEvent)

direct_score(c) == count_n(c) * DirectWeight

\* collect(distinct n.title)
news_titles(c) == {n \in NewsEvent : graph[<<"HAS_RISK_EVENT", c, n, 0>>] > 0}

\* (infected)-[:HAS_RISK_EVENT]->() : a pattern predicate, true or false
has_risk_event(i) == \E n \in NewsEvent : graph[<<"HAS_RISK_EVENT", i, n, 0>>] > 0

\* number of matches of (c)<-[:DIRECTOR_OF]-(p)-[:DIRECTOR_OF]->(i): the two
\* relationships of one match are different relationships
director_paths(c, p, i) ==
  LET m == graph[<<"DIRECTOR_OF", p, c, 0>>]
  IN  IF i = c THEN m * (m - 1) ELSE m * graph[<<"DIRECTOR_OF", p, i, 0>>]

\* mutant: the company itself is not excluded
contagion_where_self(c, i) == has_risk_event(i)

\* WHERE (infected)-[:HAS_RISK_EVENT]->() AND c <> infected
contagion_where(c, i) == has_risk_event(i) /\ c # i

\* the (p, infected) bindings of the rows the OPTIONAL MATCH keeps
contagion_rows(c) ==
  {b \in Person \X Company : director_paths(c, b[1], b[2]) > 0 /\ contagion_where(c, b[2])}

\* collect(DISTINCT p.name + ' via ' + infected.ticker)
contagion_details(c) == {<<b[1], "via", b[2]>> : b \in contagion_rows(c)}

\* count(DISTINCT infected)
count_infected(c) == Cardinality({b[2] : b \in contagion_rows(c)})

contagion_score(c) == count_infected(c) * ContagionWeight

\* number of matches of (c)-[:IS_ALSO]->(s)-[r:SUPPLIES_TO]->(g) that bind r to e
supply_paths(c, e) == graph[<<"IS_ALSO", c, e[2], 0>>] * graph[e]

\* sum(r.value): over the matched rows; 0 when there is none
total_contract_val(c) ==
  SumFn([e \in SuppliesToEdges |-> supply_paths(c, e) * e[4]], SuppliesToEdges)

\* collect(distinct g.name)
agency_names(c) == {e[3] : e \in {x \in SuppliesToEdges : supply_paths(c, x) > 0}}

\* count(distinct g)
agency_count(c) == Cardinality(agency_names(c))

\* mutant: the thresholds are not strict
supply_case_inclusive(val, agencies) ==
  IF val >= HighValue /\ agencies = 1 THEN SingleHighScore
  ELSE IF val >= HighValue /\ agencies > 1 THEN MultiHighScore
  ELSE IF val >= MediumValue /\ agencies = 1 THEN SingleMediumScore
  ELSE 0

\* CASE ... END as supply_score: the first WHEN that holds
supply_case(val, agencies) ==
  IF val > HighValue /\ agencies = 1 THEN SingleHighScore
  ELSE IF val > HighValue /\ agencies > 1 THEN MultiHighScore
  ELSE IF val > MediumValue /\ agencies = 1 THEN SingleMediumScore
  ELSE 0

supply_score(c) == supply_case(total_contract_val(c), agency_count(c))

\* mutant: the supply vector left out of the sum
total_score_without_supply(c) == direct_score(c) + contagion_score(c)

\* mutant: a fourth vector, 10 per exposed sector and 5 per acknowledged risk
total_score_with_climate(c) ==
  direct_score(c) + contagion_score(c) + supply_score(c)
    + 10 * Cardinality({x \in Sector : graph[<<"EXPOSED_TO_SECTOR", c, x, 0>>] > 0})
    + 5 * Cardinality({x \in RiskDisclosure : graph[<<"ACKNOWLEDGES_RISK", c, x, 0>>] > 0})

\* (direct_score + contagion_score + supply_score) as total_score
total_score(c) == direct_score(c) + contagion_score(c) + supply_score(c)

\* mutant: the filter lets a zero score through
where_total_or_zero(score) == score >= 0

\* WHERE total_score > 0
where_total(score) == score > 0

\* RETURN c.ticker as Ticker, ... : a company is identified by its ticker
record_data(c) ==
  [Ticker |-> c,
   Name |-> c,
   Score |-> total_score(c),
   Direct_Risk |-> direct_score(c),
   Contagion_Risk |-> contagion_score(c),
   Supply_Risk |-> supply_score(c),
   News_Context |-> news_titles(c),
   Contagion_Context |-> contagion_details(c),
   Govt_Clients |-> agency_names(c),
   Client_Count |-> agency_count(c),
   Contract_Value |-> total_contract_val(c)]

query_rows == {record_data(c) : c \in {x \in Company : where_total(total_score(x))}}

\* mutant: ascending order
order_by_asc(a, b) == a.Score =< b.Score

\* ORDER BY total_score DESC
order_by(a, b) == a.Score >= b.Score

RECURSIVE Perms(_)
Perms(S) ==
  IF S = {} THEN {<<>>}
  ELSE UNION {{<<x>> \o s : s \in Perms(S \ {x})} : x \in S}

\* the orders in which the store may stream the rows: the query fixes the
\* order by Score only, rows of equal Score come in any order
query_results ==
  {s \in Perms(query_rows) :
     \A i \in 1..Len(s) : \A j \in 1..Len(s) : i < j => order_by(s[i], s[j])}

(* ------------------------------------------------------------------ *)
(* get_risk_dashboard_data, step by step                               *)
(* ------------------------------------------------------------------ *)

\* pd.DataFrame(data): the records as rows, in the list's order;
\* pd.DataFrame(): no row
DataFrame(records) == [kind |-> "DataFrame", rows |-> records]

\* mutant: the failure is swallowed into an empty result
on_failure_swallowed(stage) == DataFrame(<<>>)

\* no except clause around the session, the query or the iteration: the
\* driver's exception leaves the function (and get_risk_data) unchanged
on_failure(stage) == [kind |-> "raise", error |-> stage]

\* with self.driver.session() as session
OpenSession ==
  /\ pc = "idle"
  /\ pc' = "session"
  /\ data' = <<>>
  /\ cursor' = <<>>
  /\ UNCHANGED <<graph, fault, ret, hist, fetch_ok, label>>

\* the store is unreachable: session() raises
OpenSessionFails ==
  /\ pc = "idle"
  /\ fault' = "session"
  /\ ret' = on_failure("session")
  /\ data' = <<>>
  /\ cursor' = <<>>
  /\ UNCHANGED <<graph, pc, hist, fetch_ok, label>>

\* result = session.run(query)
RunQuery ==
  /\ pc = "session"
  /\ \E s \in query_results : cursor' = s
  /\ pc' = "result"
  /\ UNCHANGED <<graph, data, fault, ret, hist, fetch_ok, label>>

\* session.run raises; the with statement closes the session
RunQueryFails ==
  /\ pc = "session"
  /\ fault' = "query"
  /\ ret' = on_failure("query")
  /\ pc' = "idle"
  /\ UNCHANGED <<graph, cursor, data, hist, fetch_ok, label>>

\* one turn of [record.data() for record in result]
FetchRecord ==
  /\ pc = "result"
  /\ cursor # <<>>
  /\ data' = Append(data, Head(cursor))
  /\ cursor' = Tail(cursor)
  /\ UNCHANGED <<graph, pc, fault, ret, hist, fetch_ok, label>>

\* the iteration raises (the connection drops while records are pulled): the
\* list built so far is dropped with the frame
FetchRecordFails ==
  /\ pc = "result"
  /\ fault' = "record"
  /\ ret' = on_failure("record")
  /\ data' = <<>>
  /\ cursor' = <<>>
  /\ pc' = "idle"
  /\ UNCHANGED <<graph, hist, fetch_ok, label>>

\* if not data: return pd.DataFrame()  /  return pd.DataFrame(data)
ReturnDataFrame ==
  /\ pc = "result"
  /\ cursor = <<>>
  /\ ret' = IF data = <<>> THEN DataFrame(<<>>) ELSE DataFrame(data)
  /\ fault' = "none"
  /\ data' = <<>>
  /\ pc' = "idle"
  /\ UNCHANGED <<graph, cursor, hist, fetch_ok, label>>

(* ------------------------------------------------------------------ *)
(* check_market_volatility                                             *)
(* ------------------------------------------------------------------ *)
\* closes, in cents
Prices == {50, 97, 98, 99, 100, 101}

RECURSIVE SeqsUpTo(_)
SeqsUpTo(n) ==
  IF n = 0 THEN {<<>>}
  ELSE LET S == SeqsUpTo(n - 1)
       IN  S \cup {Append(h, x) : <<h, x>> \in {y \in S \X Prices : Len(y[1]) = n - 1}}

Hists == SeqsUpTo(MaxHist)

\* ((end_price - start_price) / start_price) * 100 compared with a bound, in
\* exact arithmetic (closes are positive)
start_price(h) == h[1]
end_price(h) == h[Len(h)]
\* mutant: the bound itself counts as below
pct_change_below_or_at(h, bound) == (end_price(h) - start_price(h)) * 100 =< bound * start_price(h)

pct_change_below(h, bound) == (end_price(h) - start_price(h)) * 100 < bound * start_price(h)
pct_change_above(h, bound) == (end_price(h) - start_price(h)) * 100 > bound * start_price(h)

\* the returned string, without the formatted percentage
check_market_volatility(h, ok) ==
  IF ~ok THEN "Unknown"
  ELSE IF Len(h) < MinHist THEN "Unknown (No Data)"
  ELSE IF pct_change_below(h, ConfirmedPct) THEN "CONFIRMED"
  ELSE IF pct_change_above(h, 0) THEN "Uncorrelated"
  ELSE "Stable"

CheckMarketVolatility ==
  /\ \E h \in Hists : \E ok \in BOOLEAN :
       /\ hist' = h
       /\ fetch_ok' = ok
       /\ label' = check_market_volatility(h, ok)
  /\ UNCHANGED <<graph, pc, cursor, data, fault, ret>>

(* ------------------------------------------------------------------ *)
(* Specifications                                                      *)
(* ------------------------------------------------------------------ *)
InitMarketVars ==
  /\ hist = <<>>
  /\ fetch_ok = TRUE
  /\ label = "none"

InitEngineVars ==
  /\ pc = "idle"
  /\ cursor = <<>>
  /\ data = <<>>
  /\ fault = "none"
  /\ ret = [kind |-> "none"]

\* the engine against every graph of the bound
Init ==
  /\ graph \in Graphs
  /\ InitEngineVars
  /\ InitMarketVars

Next ==
  \/ OpenSession
  \/ OpenSessionFails
  \/ RunQuery
  \/ RunQueryFails
  \/ FetchRecord
  \/ FetchRecordFails
  \/ ReturnDataFrame

Spec == Init /\ [][Next]_vars

\* the market helper on every price history of the bound
InitMarket ==
  /\ graph = EmptyGraph
  /\ InitEngineVars
  /\ InitMarketVars

NextMarket == CheckMarketVolatility

SpecMarket == InitMarket /\ [][NextMarket]_vars

(* ------------------------------------------------------------------ *)
(* Properties                                                          *)
(* ------------------------------------------------------------------ *)
\* the rows the caller holds after a call that returned
Returned == ret.kind = "DataFrame"
RowsOf(c) == {i \in 1..Len(ret.rows) : ret.rows[i].Ticker = c}

\* what the graph holds, read off the relationships
NewsOf(c) == {n \in NewsEvent : graph[<<"HAS_RISK_EVENT", c, n, 0>>] > 0}
SharesDirector(c, i) ==
  \E p \in Person : graph[<<"DIRECTOR_OF", p, c, 0>>] > 0 /\ graph[<<"DIRECTOR_OF", p, i, 0>>] > 0
InfectedOf(c) == {i \in Company \ {c} : SharesDirector(c, i) /\ NewsOf(i) # {}}
SectorsOf(c) == {x \in Sector : graph[<<"EXPOSED_TO_SECTOR", c, x, 0>>] > 0}
DisclosuresOf(c) == {x \in RiskDisclosure : graph[<<"ACKNOWLEDGES_RISK", c, x, 0>>] > 0}
HasSupplier(c) == \E x \in Supplier : graph[<<"IS_ALSO", c, x, 0>>] > 0

C2_OneRowIffPositive ==
  /\ Returned =>
       /\ \A c \in Company :
            Cardinality(RowsOf(c)) = IF total_score(c) > 0 THEN 1 ELSE 0
       /\ \A c \in Company :
            (NewsOf(c) = {} /\ InfectedOf(c) = {} /\ ~HasSupplier(c)
               /\ SectorsOf(c) = {} /\ DisclosuresOf(c) = {}) => RowsOf(c) = {}
       /\ Len(ret.rows) = Cardinality({c \in Company : total_score(c) > 0})
  /\ (ret.kind # "none" /\ fault = "none") => Returned
  /\ (Returned /\ \A c \in Company : total_score(c) = 0) => ret.rows = <<>>

\* a call returned one row for a company with a news event while the other
\* company, whose only contract is at the lower threshold, is absent
C2_Witness ==
  /\ Returned
  /\ \E c \in Company : \E d \in Company \ {c} :
       /\ Cardinality(RowsOf(c)) = 1
       /\ RowsOf(d) = {}
       /\ total_contract_val(d) = 10000000 /\ agency_count(d) = 1

\* C3: Supply_Risk follows from (total contract value, distinct agencies) by
\* the first tier that holds: above 50,000,000 with one agency 15, above
\* 50,000,000 with several agencies 5, above 10,000,000 with one agency 8,
\* otherwise 0; the thresholds are strict and no agency gives 0.  It holds
\* of every company and of every returned row.
SupplyTier(v, a) ==
  CASE v > 50000000 /\ a = 1 -> 15
    [] v > 50000000 /\ a > 1 -> 5
    [] v > 10000000 /\ v =< 50000000 /\ a = 1 -> 8
    [] OTHER -> 0

C3_SupplyTiers ==
  /\ \A c \in Company :
       LET v == total_contract_val(c)
           a == agency_count(c)
           s == supply_case(v, a)
       IN  /\ s = SupplyTier(v, a)
           /\ (v = 10000000 /\ a = 1) => s = 0
           /\ (v = 50000000 /\ a = 1) => s = 8
           /\ a = 0 => s = 0
  /\ Returned =>
       \A i \in 1..Len(ret.rows) :
         ret.rows[i].Supply_Risk = SupplyTier(ret.rows[i].Contract_Value, ret.rows[i].Client_Count)

\* a returned row with exactly 50,000,000 to one agency, scored 8
C3_Witness ==
  /\ Returned
  /\ \E i \in 1..Len(ret.rows) :
       /\ ret.rows[i].Contract_Value = 50000000
       /\ ret.rows[i].Client_Count = 1
       /\ ret.rows[i].Supply_Risk = 8

\* C4: Direct_Risk of every returned row is 10 times the number of distinct
\* NewsEvent nodes linked to the company, also when one NewsEvent is linked
\* by several relationships.
C4_DirectRiskCountsDistinctNews ==
  Returned =>
    \A i \in 1..Len(ret.rows) :
      ret.rows[i].Direct_Risk = 10 * Cardinality(NewsOf(ret.rows[i].Ticker))

\* C5: Contagion_Risk is 5 times the number of distinct other companies that
\* share a director with the company and have a news event; the company is
\* never one of them and never stands after 'via' in its own
\* Contagion_Context.  It holds of every company and of every returned row.
C5_ContagionExcludesSelf ==
  /\ \A c \in Company :
       /\ contagion_score(c) = 5 * Cardinality(InfectedOf(c))
       /\ \A d \in contagion_details(c) : d[3] # c
  /\ Returned =>
       \A i \in 1..Len(ret.rows) :
         LET r == ret.rows[i] IN
           /\ r.Contagion_Risk = 5 * Cardinality(InfectedOf(r.Ticker))
           /\ \A d \in r.Contagion_Context : d[3] # r.Ticker

\* a call returned a row with Contagion_Risk 5 for a company and a row with
\* Contagion_Risk 0 for the infected company, which has a news event and a
\* director on its own board
C5_Witness ==
  /\ Returned
  /\ \E i \in 1..Len(ret.rows) : \E j \in 1..Len(ret.rows) :
       /\ ret.rows[i].Contagion_Risk = 5
       /\ <<"p1", "via", ret.rows[j].Ticker>> \in ret.rows[i].Contagion_Context
       /\ ret.rows[j].Direct_Risk > 0
       /\ ret.rows[j].Contagion_Risk = 0
       /\ SharesDirector(ret.rows[j].Ticker, ret.rows[j].Ticker)

C7_DescendingScore ==
  Returned =>
    \A i \in 1..Len(ret.rows) : \A j \in 1..Len(ret.rows) :
      i < j => ret.rows[i].Score >= ret.rows[j].Score

\* two rows of different Score were returned
C7_Witness ==
  /\ Returned
  /\ Len(ret.rows) = 2
  /\ ret.rows[1].Score > ret.rows[2].Score

\* C8: when the driver raised while the session was opened, the query run or
\* the records iterated, the caller gets the error and no rows; a call that
\* returns rows returns all of them: one per company of positive score, each
\* with the company's score, never a part of them and never a row of score 0.
C8_FailureSurfaces ==
  /\ fault # "none" => (ret.kind = "raise" /\ "rows" \notin DOMAIN ret)
  /\ Returned =>
       /\ {ret.rows[i] : i \in 1..Len(ret.rows)} = query_rows
       /\ Len(ret.rows) = Cardinality(query_rows)
       /\ \A i \in 1..Len(ret.rows) : ret.rows[i].Score > 0

\* the iteration of a non-empty result raised, and the caller got the error
C8_Witness ==
  /\ fault = "record"
  /\ ret.kind = "raise"
  /\ query_rows # {}
  /\ pc = "idle"

\* C9: a call that returns after a call that returned, on the same graph,
\* returns the same rows in the same order, rows of equal Score included.
C9_SameRowsSameOrder ==
  [][(ret.kind = "DataFrame" /\ ret'.kind = "DataFrame") => ret'.rows = ret.rows]_vars

\* C10: with the fetch succeeding and at least 2 closes the result is
\* CONFIRMED exactly when the change from the first to the last close is
\* below -2%, Uncorrelated exactly when it is above 0%, Stable otherwise;
\* with fewer than 2 closes or a raised exception it is one of the two
\* Unknown values; the call always returns one of the five values.
C10_MarketClassification ==
  label # "none" =>
    /\ label \in {"CONFIRMED", "Uncorrelated", "Stable", "Unknown (No Data)", "Unknown"}
    /\ (fetch_ok /\ Len(hist) >= 2) =>
         LET first == hist[1]
             last == hist[Len(hist)]
         IN  /\ label = "CONFIRMED" <=> 100 * last < 98 * first
             /\ label = "Uncorrelated" <=> last > first
             /\ label = "Stable" <=> (100 * last >= 98 * first /\ last =< first)
    /\ (~fetch_ok \/ Len(hist) < 2) => label \in {"Unknown (No Data)", "Unknown"}

\* a history that closes exactly 2% down was classified Stable
C10_Witness ==
  /\ fetch_ok
  /\ Len(hist) = 3
  /\ hist[1] = 100 /\ hist[3] = 98
  /\ label = "Stable"

\* the SUPPLIES_TO relationships a company reaches through a supplier alias
ReachedContracts(c) ==
  {e \in SuppliesToEdges : graph[e] > 0 /\ graph[<<"IS_ALSO", c, e[2], 0>>] > 0}
ContractSum(c) ==
  SumFn([e \in SuppliesToEdges |-> IF e \in ReachedContracts(c) THEN graph[e] * e[4] ELSE 0],
        SuppliesToEdges)

\* C11: after a call that returned, for every company the total contract
\* value is the sum of the value of each SUPPLIES_TO relationship reached
\* through a supplier alias, each counted once, and the agency count is the
\* number of distinct agencies reached, whatever its news events and
\* directors are; with no such relationship both are 0.  Every returned row
\* carries these as Contract_Value and Client_Count.
C11_EachContractCountedOnce ==
  Returned =>
    /\ \A c \in Company :
         /\ total_contract_val(c) = ContractSum(c)
         /\ agency_count(c) = Cardinality({e[3] : e \in ReachedContracts(c)})
         /\ ReachedContracts(c) = {} => (total_contract_val(c) = 0 /\ agency_count(c) = 0)
    /\ \A i \in 1..Len(ret.rows) :
         /\ ret.rows[i].Contract_Value = ContractSum(ret.rows[i].Ticker)
         /\ ret.rows[i].Client_Count =
              Cardinality({e[3] : e \in ReachedContracts(ret.rows[i].Ticker)})

====
